---- MODULE Spec2Model ----
(***************************************************************************)
(* The Espresso reliability scorer and candidate ranker of espresso.py,    *)
(* with the candidate store (two MongoDB collections), the PMI provider    *)
(* and the bootstrap loop that drives them.                                *)
(***************************************************************************)
EXTENDS Integers, Sequences, FiniteSets, TLC

(***************************************************************************)
(* Floating point.  Python floats are binary floating-point numbers with   *)
(* round-to-nearest-even: every arithmetic result is the exact result      *)
(* rounded to MantBits significant bits, on a grid whose smallest step is  *)
(* 2^-FracBits (gradual underflow).  CPython has 53 and 1074; the model    *)
(* keeps the format and the rounding rule and scales both numbers down.    *)
(* A float is represented by the integer number of 2^-FracBits steps.      *)
(***************************************************************************)
MantBits == 3
FracBits == 4

RECURSIVE Pow2(_)
Pow2(n) == IF n = 0 THEN 1 ELSE 2 * Pow2(n - 1)

\* the float 1.0
One == Pow2(FracBits)

\* the float of a small integer literal
Flt(n) == n * One

\* a/c rounded to the nearest integer, ties to the even one
RoundHalfEven(a, c) ==
    LET q == a \div c
        r == a % c
    IN  IF 2 * r < c THEN q
        ELSE IF 2 * r > c THEN q + 1
        ELSE IF q % 2 = 0 THEN q ELSE q + 1

\* the binade of a/b: the least g >= 0 with a/b < 2^(MantBits+g)
RECURSIVE Binade(_, _, _)
Binade(a, b, g) ==
    IF a < b * Pow2(MantBits + g) THEN g ELSE Binade(a, b, g + 1)

\* the float nearest to the non-negative rational a/b (in steps)
RoundPos(a, b) ==
    LET g == Binade(a, b, 0)
    IN  RoundHalfEven(a, b * Pow2(g)) * Pow2(g)

\* the float nearest to the rational a/b, b > 0
Round(a, b) == IF a >= 0 THEN RoundPos(a, b) ELSE 0 - RoundPos(0 - a, b)

FAdd(x, y) == Round(x + y, 1)
FMul(x, y) == Round(x * y, One)
\* x / y for y # 0
FDiv(x, y) == IF y > 0 THEN Round(x * One, y) ELSE Round(0 - (x * One), 0 - y)


(***************************************************************************)
(* The inputs of a run.                                                    *)
(***************************************************************************)
Paris == <<"paris", "france">>
Rome == <<"rome", "italy">>
Instances == {Paris, Rome}
Patterns == {"X is the capital of Y", "X in Y", "X , Y"}

\* candidates kept per iteration (option -n)
N == 3
\* largest iteration number a run is started with or stopped at
MaxIt == 2

\* the rows dpmi(i, .) the PMI provider may hold for one instance, in the
\* order "X is the capital of Y", "X in Y", "X , Y"
PmiRows == {<<Flt(2), Flt(4), Flt(2)>>, <<Flt(0), Flt(4), Flt(0)>>}
PatIndex(p) == IF p = "X is the capital of Y" THEN 1
               ELSE IF p = "X in Y" THEN 2 ELSE 3
MaxPmiVals == {Flt(4)}

\* the candidate lists the corpus-facing collaborator may hand over
CandidatePatterns ==
    {<<>>, <<"X is the capital of Y">>,
     <<"X in Y", "X is the capital of Y">>,
     <<"X is the capital of Y", "X in Y", "X , Y">>,
     <<"X , Y", "X in Y", "X is the capital of Y">>}
CandidateInstances == {<<>>, <<Paris>>, <<Rome, Paris>>}

Range(l) == {l[n] : n \in 1..Len(l)}

\* the orderings of the list l
Perms(l) ==
    {q \in [1..Len(l) -> Range(l)] : \A x \in Range(l) : \E n \in 1..Len(l) : q[n] = x}

VARIABLES
    boot_i,     \* collection <matrix>_<rel>_esp_i, in the store's natural order
    boot_p,     \* collection <matrix>_<rel>_esp_p, in the store's natural order
    storeUp,    \* the store answers; FALSE: every store call raises
    dpmi,       \* the PMI provider's table
    max_pmi,    \* self.max_pmi
    seeds,      \* the seed instances handed to the constructor
    phase,      \* the controller's state
    it,         \* the iteration being run
    stopAt,     \* the iteration the run stops at
    promI,      \* the promoted instances I
    promP,      \* the promoted patterns P
    last        \* the last call of the scorer or ranker and its outcome

vars == <<boot_i, boot_p, storeUp, dpmi, max_pmi, seeds, phase, it, stopAt,
          promI, promP, last>>

(***************************************************************************)
(* The candidate store.                                                    *)
(***************************************************************************)
\* mongodb.make_query(i=i, p=None): the filter on the instance's fields
IsInstanceMatch(r, i) == r.arg1 = i[1] /\ r.arg2 = i[2]
\* mongodb.make_query(i=None, p=p): the filter on the pattern's field
IsPatternMatch(r, p) == r.rel = p

\* collection.find_one(query), the query selecting the positions hits: raises
\* when the store is down, else the first selected document in natural
\* order, else None.  No document is updated or deleted, so the natural
\* order is the order of insertion.
find_one(coll, hits) ==
    IF ~storeUp THEN [kind |-> "raise"]
    ELSE IF hits = {} THEN [kind |-> "None"]
    ELSE [kind |-> "doc",
          doc |-> coll[CHOOSE n \in hits : \A m \in hits : n <= m]]

Ok(x) == [err |-> FALSE, val |-> x]
Raise == [err |-> TRUE, val |-> 0]

\* the positions of the documents the queries select
InstanceHits(i) == {n \in 1..Len(boot_i) : IsInstanceMatch(boot_i[n], i)}
PatternHits(p) == {n \in 1..Len(boot_p) : IsPatternMatch(boot_p[n], p)}

\* _r_i without its except clause
_r_i_uncaught(i) ==
    LET r == find_one(boot_i, InstanceHits(i))
    IN  IF r.kind = "doc" THEN Ok(r.doc.score) ELSE Raise

\* try: r = find_one(query); return r.get('score', 0.0)
\* except Exception: return 0.0
\* (find_one raising, and None.get raising, both end in the except clause)
_r_i(i) ==
    LET r == find_one(boot_i, InstanceHits(i))
    IN  IF r.kind = "doc" THEN Ok(r.doc.score) ELSE Ok(0)

_r_p(p) ==
    LET r == find_one(boot_p, PatternHits(p))
    IN  IF r.kind = "doc" THEN Ok(r.doc.score) ELSE Ok(0)

(***************************************************************************)
(* The reliability scorer.                                                 *)
(***************************************************************************)
\* sum(terms): from the integer 0, left to right
RECURSIVE sum(_)
sum(terms) ==
    IF terms = <<>> THEN 0
    ELSE FAdd(sum(SubSeq(terms, 1, Len(terms) - 1)), terms[Len(terms)])

AnyErr(rs) == \E n \in 1..Len(rs) : rs[n].err

\* r_i guarded against the empty P by returning 0
r_i_guarded(i, P) ==
    LET past == [n \in 1..Len(P) |-> _r_p(P[n])]
        terms == [n \in 1..Len(P) |->
                     FDiv(FMul(dpmi[i, P[n]], past[n].val), max_pmi)]
    IN  IF AnyErr(past) THEN Raise
        ELSE IF Len(P) = 0 THEN Ok(0)
        ELSE Ok(FDiv(sum(terms), Flt(Len(P))))

\* r_i without the division by len(P)
r_i_unaveraged(i, P) ==
    LET past == [n \in 1..Len(P) |-> _r_p(P[n])]
        terms == [n \in 1..Len(P) |->
                     FDiv(FMul(dpmi[i, P[n]], past[n].val), max_pmi)]
    IN  IF AnyErr(past) THEN Raise
        ELSE IF Len(P) = 0 THEN Raise
        ELSE Ok(sum(terms))

\* r_i reading the past score of the first pattern for every term
r_i_first_score(i, P) ==
    LET past == [n \in 1..Len(P) |-> _r_p(P[1])]
        terms == [n \in 1..Len(P) |->
                     FDiv(FMul(dpmi[i, P[n]], past[n].val), max_pmi)]
    IN  IF AnyErr(past) THEN Raise
        ELSE IF Len(P) = 0 THEN Raise
        ELSE Ok(FDiv(sum(terms), Flt(Len(P))))

r_i(i, P) ==
    LET past == [n \in 1..Len(P) |-> _r_p(P[n])]
        terms == [n \in 1..Len(P) |->
                     FDiv(FMul(dpmi[i, P[n]], past[n].val), max_pmi)]
    IN  IF AnyErr(past) THEN Raise
        ELSE IF Len(P) > 0 /\ max_pmi = 0 THEN Raise
        ELSE IF Len(P) = 0 THEN Raise
        ELSE Ok(FDiv(sum(terms), Flt(Len(P))))

r_p(I, p) ==
    LET past == [n \in 1..Len(I) |-> _r_i(I[n])]
        terms == [n \in 1..Len(I) |->
                     FDiv(FMul(dpmi[I[n], p], past[n].val), max_pmi)]
    IN  IF AnyErr(past) THEN Raise
        ELSE IF Len(I) > 0 /\ max_pmi = 0 THEN Raise
        ELSE IF Len(I) = 0 THEN Raise
        ELSE Ok(FDiv(sum(terms), Flt(Len(I))))

S(i, P) ==
    LET past == [n \in 1..Len(P) |-> _r_p(P[n])]
        T == sum([n \in 1..Len(P) |-> past[n].val])
    IN  IF AnyErr(past) THEN Raise
        ELSE IF Len(P) > 0 /\ T = 0 THEN Raise
        ELSE Ok(sum([n \in 1..Len(P) |->
                        FDiv(FMul(dpmi[i, P[n]], past[n].val), T)]))

(***************************************************************************)
(* The candidate ranker.                                                   *)
(***************************************************************************)
Reverse(s) == [n \in 1..Len(s) |-> s[Len(s) + 1 - n]]

\* r put into the ascending list s behind every record whose score is not
\* greater
RECURSIVE InsertAsc(_, _)
InsertAsc(s, r) ==
    IF s = <<>> THEN <<r>>
    ELSE IF s[Len(s)].score <= r.score THEN Append(s, r)
    ELSE Append(InsertAsc(SubSeq(s, 1, Len(s) - 1), r), s[Len(s)])

\* a stable ascending sort by score
RECURSIVE StableAsc(_)
StableAsc(s) ==
    IF s = <<>> THEN <<>>
    ELSE InsertAsc(StableAsc(SubSeq(s, 1, Len(s) - 1)), s[Len(s)])

\* an ascending sort followed by a reversal
SortThenReverse(rs) == Reverse(StableAsc(rs))

\* rs.sort(key=score, reverse=True): the list is reversed, sorted ascending
\* by a stable sort, and reversed again
SortReverse(rs) == Reverse(StableAsc(Reverse(rs)))

rank_patterns(I, P, k) ==
    LET scores == [n \in 1..Len(P) |-> r_p(I, P[n])]
        rs == [n \in 1..Len(P) |->
                  [rel |-> P[n], it |-> k, score |-> scores[n].val]]
    IN  IF AnyErr(scores) THEN [err |-> TRUE, val |-> <<>>]
        ELSE [err |-> FALSE, val |-> SortReverse(rs)]

rank_instances(I, P, k) ==
    LET scores == [n \in 1..Len(I) |-> r_i(I[n], P)]
        rs == [n \in 1..Len(I) |->
                  [arg1 |-> I[n][1], arg2 |-> I[n][2], it |-> k,
                   score |-> scores[n].val]]
    IN  IF AnyErr(scores) THEN [err |-> TRUE, val |-> <<>>]
        ELSE [err |-> FALSE, val |-> SortReverse(rs)]

(***************************************************************************)
(* The bootstrap controller.                                               *)
(***************************************************************************)
\* the first n records of a ranked list
Top(rs, n) == SubSeq(rs, 1, IF Len(rs) < n THEN Len(rs) ELSE n)

\* the record of a seed in the instance collection of a database that was
\* seeded before: iteration 0, score 1.0
SeedRecord(i) == [arg1 |-> i[1], arg2 |-> i[2], it |-> 0, score |-> One]

\* add_seeds(seeds): the seeds become the promoted instances; no score
\* record is written for them
add_seeds(coll, sd) == coll

NoCall == [op |-> "none", I |-> <<>>, P |-> <<>>, it |-> 0, down |-> FALSE,
           err |-> FALSE, val |-> 0, recs |-> <<>>]

\* Espresso(db, matrix, rel, seeds, n, keep, reset) on a database that is
\* empty or holds the seeds' records
Init ==
    /\ seeds \in {<<Paris>>, <<Paris, Rome>>}
    /\ \E loaded \in BOOLEAN :
          boot_i = add_seeds(IF loaded
                             THEN [n \in 1..Len(seeds) |-> SeedRecord(seeds[n])]
                             ELSE <<>>, seeds)
    /\ boot_p = <<>>
    /\ storeUp = TRUE
    /\ \E rows \in [Instances -> PmiRows] :
          dpmi = [x \in Instances \X Patterns |-> rows[x[1]][PatIndex(x[2])]]
    /\ max_pmi \in MaxPmiVals
    /\ phase = "INITIALIZED"
    /\ it = 0
    /\ stopAt = 0
    /\ promI = seeds
    /\ promP = <<>>
    /\ last = NoCall

\* bootstrap(start, stop)
Bootstrap(start, stop) ==
    /\ phase = "INITIALIZED"
    /\ it' = start
    /\ stopAt' = stop
    /\ phase' = IF start <= stop THEN "PROMOTING_PATTERNS" ELSE "STOPPED"
    /\ last' = NoCall
    /\ UNCHANGED <<boot_i, boot_p, storeUp, dpmi, max_pmi, seeds, promI, promP>>

\* steps 1 and 2 of an iteration: rank the candidate patterns against the
\* promoted instances, keep the top N, insert them
PromotePatterns(cands) ==
    /\ phase = "PROMOTING_PATTERNS"
    /\ \E ranked \in {rank_patterns(promI, cands, it)} :
       \E top \in {Top(ranked.val, N)} :
       \E failed \in {ranked.err \/ (top # <<>> /\ ~storeUp)} :
          /\ last' = [op |-> "rank_patterns", I |-> promI, P |-> cands,
                      it |-> it, down |-> ~storeUp, err |-> ranked.err,
                      val |-> 0, recs |-> ranked.val]
          /\ phase' = IF failed THEN "FAILED" ELSE "PROMOTING_INSTANCES"
          /\ boot_p' = IF failed THEN boot_p ELSE boot_p \o top
          /\ promP' = IF failed THEN promP
                      ELSE [n \in 1..Len(top) |-> top[n].rel]
    /\ UNCHANGED <<boot_i, storeUp, dpmi, max_pmi, seeds, it, stopAt, promI>>

\* steps 3 to 5: rank the candidate instances against the patterns just
\* promoted, keep the top N, insert them, go to the next iteration
PromoteInstances(cands) ==
    /\ phase = "PROMOTING_INSTANCES"
    /\ \E ranked \in {rank_instances(cands, promP, it)} :
       \E top \in {Top(ranked.val, N)} :
       \E failed \in {ranked.err \/ (top # <<>> /\ ~storeUp)} :
          /\ last' = [op |-> "rank_instances", I |-> cands, P |-> promP,
                      it |-> it, down |-> ~storeUp, err |-> ranked.err,
                      val |-> 0, recs |-> ranked.val]
          /\ phase' = IF failed THEN "FAILED"
                      ELSE IF it < stopAt THEN "PROMOTING_PATTERNS"
                      ELSE "STOPPED"
          /\ it' = IF ~failed /\ it < stopAt THEN it + 1 ELSE it
          /\ boot_i' = IF failed THEN boot_i ELSE boot_i \o top
          /\ promI' = IF failed THEN promI
                      ELSE [n \in 1..Len(top) |-> <<top[n].arg1, top[n].arg2>>]
    /\ UNCHANGED <<boot_p, storeUp, dpmi, max_pmi, seeds, stopAt, promP>>

\* a downstream consumer asks for the confidence of an instance in the
\* promoted patterns
Confidence(i) ==
    /\ \E c \in {S(i, promP)} :
          last' = [op |-> "S", I |-> <<i>>, P |-> promP, it |-> it,
                   down |-> ~storeUp, err |-> c.err, val |-> c.val,
                   recs |-> <<>>]
    /\ UNCHANGED <<boot_i, boot_p, storeUp, dpmi, max_pmi, seeds, phase, it,
                   stopAt, promI, promP>>

\* the store becomes unreachable
StoreFails ==
    /\ storeUp
    /\ storeUp' = FALSE
    /\ UNCHANGED <<boot_i, boot_p, dpmi, max_pmi, seeds, phase, it, stopAt,
                   promI, promP, last>>

\* the store is reachable again
StoreRecovers ==
    /\ ~storeUp
    /\ storeUp' = TRUE
    /\ UNCHANGED <<boot_i, boot_p, dpmi, max_pmi, seeds, phase, it, stopAt,
                   promI, promP, last>>

Next ==
    \/ \E start, stop \in 1..MaxIt : Bootstrap(start, stop)
    \/ \E cands \in CandidatePatterns : PromotePatterns(cands)
    \/ \E cands \in CandidateInstances : PromoteInstances(cands)
    \/ \E i \in Instances : Confidence(i)
    \/ StoreFails
    \/ StoreRecovers

Spec == Init /\ [][Next]_vars
(***************************************************************************)
(* Properties.                                                             *)
(***************************************************************************)
\* the scores of the records of coll at the positions hits that carry the
\* greatest iteration number
LatestScores(coll, hits) ==
    {coll[n].score : n \in {h \in hits : \A m \in hits : coll[m].it <= coll[h].it}}

IsRankCall == last.op \in {"rank_patterns", "rank_instances"}

\* C1: for every seed that has no score record in the instance collection,
\* the past-score lookup _r_i that a pattern ranking over the seeds uses
\* returns exactly 1.0.
C1_SeedLookupIsOne ==
    (storeUp /\ last.op = "rank_patterns" /\ ~last.down /\ last.I = seeds) =>
        \A n \in 1..Len(seeds) :
            InstanceHits(seeds[n]) = {} => _r_i(seeds[n]) = Ok(One)

\* C2: in iteration 1, with the single seed as the promoted instances, no
\* score records, one candidate pattern p, dpmi(seed, p) = 2 and maxPmi = 4,
\* rank_patterns returns the one record {p, iteration 1, score 0.5}.
C2_FirstIterationScore ==
    (/\ last.op = "rank_patterns"
     /\ ~last.down
     /\ last.it = 1
     /\ Len(seeds) = 1
     /\ last.I = seeds
     /\ boot_i = <<>>
     /\ Len(last.P) = 1
     /\ dpmi[seeds[1], last.P[1]] = Flt(2)
     /\ max_pmi = Flt(4))
    => last.recs = <<[rel |-> last.P[1], it |-> 1, score |-> One \div 2]>>

\* C3: for a key with several records, written by the promotions of
\* different iterations, the lookups _r_p and _r_i return the score of the
\* record with the greatest iteration.
C3_LatestRecordWins ==
    storeUp =>
        /\ \A p \in Patterns :
              PatternHits(p) # {} =>
                  _r_p(p).val \in LatestScores(boot_p, PatternHits(p))
        /\ \A i \in Instances :
              (InstanceHits(i) # {} /\ \A n \in InstanceHits(i) : boot_i[n].it >= 1)
                  => _r_i(i).val \in LatestScores(boot_i, InstanceHits(i))

C5_StoreFailureSurfaces ==
    (IsRankCall /\ last.down /\ last.I # <<>> /\ last.P # <<>>) => last.err

\* C6: the confidence S(i, P) over promoted patterns whose past scores are
\* all 0.0 (the empty P included) ends in an error.
C6_ZeroTotalRaises ==
    (/\ last.op = "S"
     /\ storeUp = ~last.down
     /\ \A n \in 1..Len(last.P) : _r_p(last.P[n]).val = 0)
    => last.err

\* C7: r_i over no promoted patterns and r_p over no promoted instances
\* raise; a ranking of candidates against an empty promoted set raises and
\* returns no records.
C7_EmptyPromotedSetRaises ==
    /\ \A i \in Instances : r_i(i, <<>>).err
    /\ \A p \in Patterns : r_p(<<>>, p).err
    /\ (last.op = "rank_instances" /\ last.P = <<>> /\ last.I # <<>>)
       => (last.err /\ last.recs = <<>> /\ phase = "FAILED")
    /\ (last.op = "rank_patterns" /\ last.I = <<>> /\ last.P # <<>>)
       => (last.err /\ last.recs = <<>> /\ phase = "FAILED")

\* the candidate patterns of iteration 1 were empty, and the ranking of the
\* candidate instances against no promoted pattern has failed
C7_Witness ==
    /\ last.op = "rank_instances"
    /\ last.P = <<>>
    /\ Len(last.I) = 2
    /\ last.err
    /\ phase = "FAILED"
    /\ boot_i = <<>>

\* the key of a ranked record
KeyOf(r) == IF last.op = "rank_patterns" THEN r.rel ELSE <<r.arg1, r.arg2>>
\* the candidates of the last ranking, and the position of a key in them
Candidates == IF last.op = "rank_patterns" THEN last.P ELSE last.I
PosIn(l, x) == CHOOSE n \in 1..Len(l) : l[n] = x
\* the score the scorer gives a candidate of the last ranking
ScoreOf(c) == IF last.op = "rank_patterns" THEN r_p(last.I, c).val
              ELSE r_i(c, last.P).val

\* C8: a ranking returns one record per candidate, each with the iteration
\* passed in and the candidate's score, by non-increasing score, candidates
\* of equal score in their input order.
C8_StableTotalRanking ==
    (IsRankCall /\ ~last.err) =>
        /\ Len(last.recs) = Len(Candidates)
        /\ \A c \in Range(Candidates) :
              Cardinality({n \in 1..Len(last.recs) : KeyOf(last.recs[n]) = c}) = 1
        /\ \A n \in 1..Len(last.recs) :
              /\ last.recs[n].it = last.it
              /\ KeyOf(last.recs[n]) \in Range(Candidates)
              /\ storeUp = ~last.down =>
                    last.recs[n].score = ScoreOf(KeyOf(last.recs[n]))
        /\ \A a, b \in 1..Len(last.recs) :
              a < b =>
                  /\ last.recs[a].score >= last.recs[b].score
                  /\ last.recs[a].score = last.recs[b].score =>
                        PosIn(Candidates, KeyOf(last.recs[a]))
                            < PosIn(Candidates, KeyOf(last.recs[b]))

\* a ranking of three candidates has moved the best one, given second, to
\* the front and kept the two tied ones in their input order
C8_Witness ==
    /\ IsRankCall
    /\ ~last.err
    /\ Len(last.recs) = 3
    /\ KeyOf(last.recs[1]) = Candidates[2]
    /\ KeyOf(last.recs[2]) = Candidates[1]
    /\ KeyOf(last.recs[3]) = Candidates[3]
    /\ last.recs[1].score > last.recs[2].score
    /\ last.recs[2].score = last.recs[3].score
    /\ last.recs[3].score > 0

InUnit(x) == 0 <= x /\ x <= One

\* C9: with every dpmi in [0, maxPmi] and maxPmi > 0, every score ranked,
\* stored or computed from the stored ones lies in [0, 1].
C9_ScoresInUnitInterval ==
    (max_pmi > 0 /\ \A x \in DOMAIN dpmi : 0 <= dpmi[x] /\ dpmi[x] <= max_pmi)
    => /\ \A n \in 1..Len(boot_p) : InUnit(boot_p[n].score)
       /\ \A n \in 1..Len(boot_i) : InUnit(boot_i[n].score)
       /\ \A n \in 1..Len(last.recs) : InUnit(last.recs[n].score)
       /\ promP # <<>> => \A i \in Instances : InUnit(r_i(i, promP).val)
       /\ promI # <<>> => \A p \in Patterns : InUnit(r_p(promI, p).val)

\* the second iteration has stored a pattern score of 1.0 and an instance
\* score strictly between 0 and 1
C9_Witness ==
    /\ \E n \in 1..Len(boot_p) : boot_p[n].it = 2 /\ boot_p[n].score = One
    /\ \E n \in 1..Len(boot_i) :
          /\ boot_i[n].it = 2
          /\ 0 < boot_i[n].score
          /\ boot_i[n].score < One

\* C10: r_i(i, P') = r_i(i, P) for every ordering P' of the promoted
\* patterns P.
C10_OrderInvariant ==
    promP # <<>> =>
        \A i \in Instances : \A Q \in Perms(promP) : r_i(i, Q) = r_i(i, promP)

\* C10, amended: r_i(i, P') = r_i(i, P) for every ordering P' of at most two
\* promoted patterns.
C10_OrderInvariantUpToTwo ==
    (promP # <<>> /\ Len(promP) <= 2) =>
        \A i \in Instances : \A Q \in Perms(promP) : r_i(i, Q) = r_i(i, promP)

\* two patterns with different non-zero terms are promoted and ranked
\* instances against them
C10_Witness ==
    /\ Len(promP) = 2
    /\ last.op = "rank_instances"
    /\ ~last.err
    /\ \E i \in Instances :
          /\ r_i(i, promP).val > 0
          /\ FMul(dpmi[i, promP[1]], _r_p(promP[1]).val)
                # FMul(dpmi[i, promP[2]], _r_p(promP[2]).val)
          /\ FMul(dpmi[i, promP[2]], _r_p(promP[2]).val) > 0
====
